---- MODULE Spec2Model ----
(***************************************************************************)
(* Model of the YouTube-Download-Universal front end: the zustand session  *)
(* store (src/src/stores/downloadStore.ts), the download controller and    *)
(* startup effects of App (src/src/App.tsx), the safety-gate warning       *)
(* screen, the input field, the history sidebar and the tool installer;     *)
(* and of the Android plugin that runs the download engine                 *)
(* (src/tauri-plugin-ytdlp/android/src/main/java/YtdlpPlugin.kt).          *)
(*                                                                         *)
(* JavaScript runs every handler and every promise continuation to         *)
(* completion on one event loop, so each handler/continuation is one       *)
(* action.  A handler created by a render closes over the values of that   *)
(* render; the values a closure captured are carried in the session and    *)
(* timer records.                                                          *)
(***************************************************************************)
EXTENDS Integers, Sequences, FiniteSets, TLC

VARIABLES
    store,            \* the zustand store state (downloadStore.ts)
    isSetupRequired,  \* App useState<boolean | null>: "null", "true", "false"
    isAndroid,        \* platform test of the startup effect
    checkStatusCall,  \* invoke("check_sidecar_status"): "none", "pending", "done"
    countCall,        \* invoke("get_download_count"): "pending", "resolved", "rejected"
    persistedCount,   \* the count the backend holds and get_download_count returns
    sessions,         \* one record per handleDownload run that passed the gate
    timers,           \* pending setTimeout callbacks of handleUrlFromHistory (FIFO)
    url_history,      \* localStorage["url_history"], most recent first
    isInstalling,     \* BinaryDownloader useState
    setupError,       \* BinaryDownloader useState<string | null>
    installCall,      \* invoke("install_sidecar"): "none", "pending"
    events,           \* number of backend events relayed so far
    bridge,           \* the two event subscriptions of App and whether it is mounted
    plugin            \* YtdlpPlugin: its fields and the threads running its code

vars == <<store, isSetupRequired, isAndroid, checkStatusCall, countCall,
          persistedCount, sessions, timers, url_history, isInstalling,
          setupError, installCall, events, bridge, plugin>>

appVars == <<isSetupRequired, isAndroid, checkStatusCall, countCall,
             persistedCount, sessions, timers, url_history, isInstalling,
             setupError, installCall, events, bridge, plugin>>

----------------------------------------------------------------------------
(* Bounds of the model                                                     *)

\* sessions and pending history timers the user creates in a run of Spec
MaxSessions == 1
\* backend events relayed in a run
MaxEvents == 1
\* log entries written in a run of StoreSpec
MaxStoreLogs == 1
\* the largest daily count the backend returns in a run of GateSpec
MaxGateCount == 50
\* log lines the backend sends in a run of LogSpec
MaxAppends == 1500
\* downloads the user makes in a run of HistorySpec
MaxUpserts == 2
\* submissions the user makes in a run of OverlapSpec
MaxOverlap == 2
\* command invocations of the Android plugin in a run
MaxInvokes == 2

(* Program constants                                                       *)

GateLimit == 25
\* from this count on the counter is drawn in red (display only)
HardIndicator == 40
AutoWarnLimit == 45
LogKeep == 999
HistoryCap == 20

(* Input sets                                                              *)

Urls == {"u1", "u2"}
Counts == {0, 24, 30, 45}
OutputPaths == {"", "/m/x.mp3"}
\* values a call can reject with: an Error object, or a bare string
Thrown == {[kind |-> "Error", message |-> "timeout"],
           [kind |-> "string", value |-> "boom"]}
ProgressValues == {-5, 50, 150}
StatusTexts == {"", "Downloading"}
LogLevels == {"info", "warn", "error", "success"}
DownloadStatus == {"idle", "validating", "downloading", "converting",
                   "success", "error"}

----------------------------------------------------------------------------
(* Values                                                                  *)

Null == [null |-> TRUE]

Title(url) == IF url = "u1" THEN "t1" ELSE "t2"

\* the artist of a video; "" stands for null (both are falsy to ||)
Artist(url) == IF url = "u1" THEN "" ELSE "a2"

\* what get_video_info resolves with for a URL
VideoInfo(url) ==
    [title |-> Title(url), artist |-> Artist(url), outputPath |-> ""]

\* what start_download resolves with for a URL
DownloadResult(url, path) ==
    [title |-> Title(url), artist |-> Artist(url), outputPath |-> path]

Min(a, b) == IF a < b THEN a ELSE b
Max(a, b) == IF a > b THEN a ELSE b

\* Array.prototype.slice(-n): the last n elements
SliceLast(s, n) ==
    IF Len(s) <= n THEN s ELSE SubSeq(s, Len(s) - n + 1, Len(s))

\* Array.prototype.slice(0, n): the first n elements
SliceFirst(s, n) ==
    IF Len(s) <= n THEN s ELSE SubSeq(s, 1, n)

----------------------------------------------------------------------------
(* The store: downloadStore.ts                                             *)

initialState ==
    [status         |-> "idle",
     metadata       |-> Null,
     error          |-> Null,
     progress       |-> 0,
     dailyDownloads |-> 0,
     isGateWarning  |-> FALSE,
     gateBypass     |-> FALSE,
     logs           |-> << >>]

\* setStatus dropping the metadata whenever a new session starts validating
setStatus_ClearingMetadata(state, status) ==
    [state EXCEPT !.status   = status,
                  !.metadata = IF status = "idle" \/ status = "validating"
                               THEN Null ELSE state.metadata,
                  !.error    = IF status = "error" THEN state.error ELSE Null]

setStatus(state, status) ==
    [state EXCEPT !.status   = status,
                  !.metadata = IF status = "idle" THEN Null ELSE state.metadata,
                  !.error    = IF status = "error" THEN state.error ELSE Null]

\* setProgress storing the value as it comes
setProgress_Unclamped(state, progress) ==
    [state EXCEPT !.progress = progress]

setProgress(state, progress) ==
    [state EXCEPT !.progress = Min(100, Max(0, progress))]

\* setMetadata leaving an earlier error in place
setMetadata_KeepingError(state, metadata) ==
    IF metadata = Null THEN state
    ELSE [state EXCEPT !.status   = IF state.status = "success" \/ state.status = "idle"
                                    THEN "success" ELSE state.status,
                       !.metadata = metadata]

\* setMetadata with the status promoted whatever the current status is
setMetadata_Promoting(state, metadata) ==
    IF metadata = Null THEN state
    ELSE [state EXCEPT !.status   = "success",
                       !.metadata = metadata,
                       !.error    = Null]

setMetadata(state, metadata) ==
    IF metadata = Null THEN state
    ELSE [state EXCEPT !.status   = IF state.status = "success" \/ state.status = "idle"
                                    THEN "success" ELSE state.status,
                       !.metadata = metadata,
                       !.error    = Null]

\* setError dropping the metadata of the failed session
setError_ClearingMetadata(state, error) ==
    IF error # Null
    THEN [state EXCEPT !.status = "error", !.error = error, !.metadata = Null]
    ELSE state

\* setError taking a null argument as "clear the error"
setError_NullClears(state, error) ==
    IF error # Null
    THEN [state EXCEPT !.status = "error", !.error = error]
    ELSE [state EXCEPT !.error = Null]

setError(state, error) ==
    IF error # Null
    THEN [state EXCEPT !.status = "error", !.error = error]
    ELSE state

\* addLog cutting the old entries to 1000 before it appends
addLog_KeepingThousand(state, level, message) ==
    [state EXCEPT !.logs = Append(SliceLast(state.logs, LogKeep + 1),
                                  [level |-> level, message |-> message])]

addLog(state, level, message) ==
    [state EXCEPT !.logs = Append(SliceLast(state.logs, LogKeep),
                                  [level |-> level, message |-> message])]

clearLogs(state) == [state EXCEPT !.logs = << >>]

\* setDailyDownloads withdrawing the user's override with every new count
setDailyDownloads_ClearingBypass(state, count) ==
    [state EXCEPT !.dailyDownloads = count,
                  !.isGateWarning  = (count >= AutoWarnLimit),
                  !.gateBypass     = FALSE]

setDailyDownloads(state, count) ==
    [state EXCEPT !.dailyDownloads = count,
                  !.isGateWarning  = (count >= AutoWarnLimit)]

setGateWarning(state, isGateWarning) ==
    [state EXCEPT !.isGateWarning = isGateWarning]

setGateBypass(state, gateBypass) ==
    [state EXCEPT !.gateBypass = gateBypass]

reset(state) == initialState

----------------------------------------------------------------------------
(* History persistence: Sidebar.tsx                                        *)

RECURSIVE FilterUrl(_, _)
FilterUrl(history, url) ==
    IF history = << >> THEN << >>
    ELSE IF Head(history).url = url THEN FilterUrl(Tail(history), url)
    ELSE <<Head(history)>> \o FilterUrl(Tail(history), url)

\* saveHistory writing the whole list
saveHistory_Uncapped(history) == history

saveHistory(history) == SliceFirst(history, HistoryCap)

addToHistory(history, url, title) ==
    saveHistory(<<[url |-> url, title |-> title]>> \o FilterUrl(history, url))

\* what localStorage does to a call: getItem throws or returns text
\* JSON.parse rejects, setItem throws (quota, storage disabled)
StorageFaults == [getItem : BOOLEAN, setItem : BOOLEAN]

\* loadHistory: the catch block turns a failed read into the empty list
loadHistory(stored, fault) ==
    IF fault.getItem THEN << >> ELSE stored

\* addToHistory on a storage that may fail: the catch block of saveHistory
\* leaves the stored list as it was
addToHistoryOn(stored, url, title, fault) ==
    LET newHistory == <<[url |-> url, title |-> title]>>
                          \o FilterUrl(loadHistory(stored, fault), url)
    IN  IF fault.setItem THEN stored ELSE saveHistory(newHistory)

----------------------------------------------------------------------------
(* The event subscriptions of App: listen() is asynchronous.  A stream is  *)
(* "requested" once listen() was called, "registered" once the backend     *)
(* delivers the stream's events to the handler, "subscribed" once the      *)
(* promise of listen() has resolved with the unlisten function, "failed"   *)
(* when that promise rejected, and "unlistened" once unlisten() was called.*)

StreamStates == {"requested", "registered", "subscribed", "failed",
                 "unlistened"}

\* both listen() calls made by the effect, none answered yet
Requested ==
    [progress |-> "requested", log |-> "requested", mounted |-> TRUE]

\* both subscriptions complete, App mounted
Subscribed ==
    [progress |-> "subscribed", log |-> "subscribed", mounted |-> TRUE]

\* the backend delivers the events of a stream to the handler
Delivers(stream) ==
    bridge[stream] = "registered" \/ bridge[stream] = "subscribed"

----------------------------------------------------------------------------
(* The Android plugin.  load() runs initYtdlpSync on the thread that loads *)
(* the plugin; every command launches a coroutine of the plugin's scope on *)
(* Dispatchers.IO.  A thread record holds the command it runs, the line it *)
(* has reached and how often it has called invoke.resolve and              *)
(* invoke.reject.  Thread 1 is the one running load(); initLock holds the  *)
(* number of the thread inside synchronized(initLock), 0 when none is;     *)
(* inits counts the times the engine's init returned without an exception. *)

Commands == {"extractInfo", "download", "updateYtdlp", "getVersion"}

\* the commands that call ensureInitialized before their engine request
EnsuringCommands == {"extractInfo", "download"}

ThreadOf(command, pc) ==
    [command |-> command, pc |-> pc, resolved |-> 0, rejected |-> 0]

\* the plugin constructed, load() about to call initYtdlpSync
Loading ==
    [isInitialized |-> FALSE,
     initLock      |-> 0,
     scope         |-> "active",
     inits         |-> 0,
     threads       |-> <<ThreadOf("load", "check1")>>]

----------------------------------------------------------------------------
(* Initial state: after the first render and its effects have started,     *)
(* the event subscriptions complete                                        *)

Init ==
    /\ store = initialState
    /\ isAndroid \in BOOLEAN
    /\ isSetupRequired = IF isAndroid THEN "false" ELSE "null"
    /\ checkStatusCall = IF isAndroid THEN "none" ELSE "pending"
    /\ countCall = "pending"
    /\ persistedCount \in Counts
    /\ sessions = << >>
    /\ timers = << >>
    /\ url_history = <<[url |-> "u1", title |-> "t1"]>>
    /\ isInstalling = FALSE
    /\ setupError = Null
    /\ installCall = "none"
    /\ events = 0
    /\ bridge = Subscribed
    /\ plugin = Loading

----------------------------------------------------------------------------
(* What the user can reach on screen                                       *)

\* InputField: the form is disabled while a session is in flight
isLoading ==
    store.status = "validating" \/ store.status = "downloading"
        \/ store.status = "converting"

\* BinaryDownloader is a full-screen layer (z-100) mounted while
\* isSetupRequired is true; null and false mount nothing
SetupVisible == isSetupRequired = "true"

\* WarningScreen is a full-screen layer (z-50) mounted while isGateWarning
WarningVisible == store.isGateWarning

\* the terminal view and the sidebar can be clicked when no layer covers them
MainReachable == ~SetupVisible /\ ~WarningVisible

----------------------------------------------------------------------------
(* Startup effects of App                                                  *)

\* the check asking for setup only when both tools are missing
CheckStatusResolve_BothMissing(yt_dlp, ffmpeg) ==
    /\ checkStatusCall = "pending"
    /\ checkStatusCall' = "done"
    /\ isSetupRequired' = IF ~yt_dlp /\ ~ffmpeg THEN "true" ELSE "false"
    /\ UNCHANGED <<store, isAndroid, countCall, persistedCount, sessions,
                   timers, url_history, isInstalling, setupError,
                   installCall, events, bridge,
                   plugin>>

CheckStatusResolve(yt_dlp, ffmpeg) ==
    /\ checkStatusCall = "pending"
    /\ checkStatusCall' = "done"
    /\ isSetupRequired' = IF ~yt_dlp \/ ~ffmpeg THEN "true" ELSE "false"
    /\ UNCHANGED <<store, isAndroid, countCall, persistedCount, sessions,
                   timers, url_history, isInstalling, setupError,
                   installCall, events, bridge,
                   plugin>>

CheckStatusReject ==
    /\ checkStatusCall = "pending"
    /\ checkStatusCall' = "done"
    /\ isSetupRequired' = "true"
    /\ UNCHANGED <<store, isAndroid, countCall, persistedCount, sessions,
                   timers, url_history, isInstalling, setupError,
                   installCall, events, bridge,
                   plugin>>

LoadCountResolve ==
    /\ countCall = "pending"
    /\ countCall' = "resolved"
    /\ store' = setDailyDownloads(store, persistedCount)
    /\ UNCHANGED <<isSetupRequired, isAndroid, checkStatusCall,
                   persistedCount, sessions, timers, url_history,
                   isInstalling, setupError, installCall, events, bridge,
                   plugin>>

LoadCountReject ==
    /\ countCall = "pending"
    /\ countCall' = "rejected"
    /\ store' = setDailyDownloads(store, 0)
    /\ UNCHANGED <<isSetupRequired, isAndroid, checkStatusCall,
                   persistedCount, sessions, timers, url_history,
                   isInstalling, setupError, installCall, events, bridge,
                   plugin>>

----------------------------------------------------------------------------
(* The event relay of App                                                  *)

progressListener(state, payload) ==
    IF payload.status # ""
    THEN addLog(setProgress(state, payload.progress), "info",
                <<payload.status>>)
    ELSE setProgress(state, payload.progress)

\* the log handler dropping an event equal to the entry logged last
logListener_Deduplicating(state, payload) ==
    IF /\ state.logs # << >>
       /\ state.logs[Len(state.logs)] =
              addLog(state, payload.level, <<payload.message>>)
                  .logs[Len(state.logs) + 1]
    THEN state
    ELSE addLog(state, payload.level, <<payload.message>>)

logListener(state, payload) ==
    addLog(state, payload.level, <<payload.message>>)

ProgressEvent(payload) ==
    /\ Delivers("progress")
    /\ events < MaxEvents
    /\ events' = events + 1
    /\ store' = progressListener(store, payload)
    /\ UNCHANGED <<isSetupRequired, isAndroid, checkStatusCall, countCall,
                   persistedCount, sessions, timers, url_history,
                   isInstalling, setupError, installCall, bridge,
                   plugin>>

LogEvent(payload) ==
    /\ Delivers("log")
    /\ events < MaxEvents
    /\ events' = events + 1
    /\ store' = logListener(store, payload)
    /\ UNCHANGED <<isSetupRequired, isAndroid, checkStatusCall, countCall,
                   persistedCount, sessions, timers, url_history,
                   isInstalling, setupError, installCall, bridge,
                   plugin>>

----------------------------------------------------------------------------
(* The download controller: handleDownload                                 *)

\* the gate test refusing every submit from the red count on, bypass or not
GateWarns_HardBlock(dailyDownloads, gateBypass) ==
    \/ dailyDownloads >= HardIndicator
    \/ dailyDownloads >= GateLimit /\ ~gateBypass

\* the gate test of handleDownload on the values its closure holds
GateWarns(dailyDownloads, gateBypass) ==
    dailyDownloads >= GateLimit /\ ~gateBypass

\* handleDownload launching its calls without leaving the idle status
handleDownload_NotValidating(url, dailyDownloads, gateBypass) ==
    IF GateWarns(dailyDownloads, gateBypass)
    THEN /\ store' = setGateWarning(store, TRUE)
         /\ UNCHANGED sessions
    ELSE /\ store' = addLog(addLog(store,
                                   "info", <<"Starting download for", url>>),
                            "info", <<"Format", "MP3">>)
         /\ sessions' = Append(sessions,
                               [url            |-> url,
                                dailyDownloads |-> dailyDownloads,
                                probe          |-> "pending",
                                job            |-> "pending",
                                outcome        |-> Null])

\* the synchronous part of handleDownload, up to the await; dailyDownloads
\* and gateBypass are the values of the render that created the callback
handleDownload(url, dailyDownloads, gateBypass) ==
    IF GateWarns(dailyDownloads, gateBypass)
    THEN /\ store' = setGateWarning(store, TRUE)
         /\ UNCHANGED sessions
    ELSE /\ store' = addLog(addLog(setStatus(store, "validating"),
                                   "info", <<"Starting download for", url>>),
                            "info", <<"Format", "MP3">>)
         /\ sessions' = Append(sessions,
                               [url            |-> url,
                                dailyDownloads |-> dailyDownloads,
                                probe          |-> "pending",
                                job            |-> "pending",
                                outcome        |-> Null])

\* the continuation storing the probe's answer whatever the status is
infoThen_Unguarded(state, info) ==
    addLog(setMetadata(state, info), "info",
           <<"Found", info.title,
             IF info.artist # "" THEN info.artist ELSE "Unknown artist">>)

\* the continuation declaring the session finished as soon as the probe answers
infoThen_Finishing(state, info) ==
    IF state.status # "success"
    THEN addLog(setStatus(setMetadata(state, info), "success"), "info",
                <<"Found", info.title,
                  IF info.artist # "" THEN info.artist ELSE "Unknown artist">>)
    ELSE state

\* the continuation attached to infoPromise
infoThen(state, info) ==
    IF state.status # "success"
    THEN addLog(setMetadata(state, info), "info",
                <<"Found", info.title,
                  IF info.artist # "" THEN info.artist ELSE "Unknown artist">>)
    ELSE state

\* handleDownload after the await, when downloadPromise resolved
downloadThen(state, result, dailyDownloads) ==
    LET s1 == setStatus(setMetadata(state, result), "success")
        s2 == addLog(s1, "success", <<"Downloaded", result.title>>)
        s3 == IF result.outputPath # ""
              THEN addLog(s2, "success", <<"Saved to", result.outputPath>>)
              ELSE s2
    IN  setDailyDownloads(s3, dailyDownloads + 1)

\* error instanceof Error ? error.message : String(error)
errorMessage(thrown) ==
    IF thrown.kind = "Error" THEN thrown.message ELSE thrown.value

\* the catch block counting the failed attempt as a download
downloadCatch_Counting(state, thrown) ==
    setDailyDownloads(
        addLog(setError(state, [code    |-> "DOWNLOAD_FAILED",
                                message |-> errorMessage(thrown)]),
               "error", <<"Download failed", errorMessage(thrown)>>),
        state.dailyDownloads + 1)

\* the catch block only logging the failure
downloadCatch_Silent(state, thrown) ==
    addLog(state, "error", <<"Download failed", errorMessage(thrown)>>)

\* the catch block of handleDownload
downloadCatch(state, thrown) ==
    addLog(setError(state, [code    |-> "DOWNLOAD_FAILED",
                            message |-> errorMessage(thrown)]),
           "error", <<"Download failed", errorMessage(thrown)>>)

\* the user submits the form of InputField, which holds the handleDownload
\* of the latest render; limit bounds the submissions the user makes in a run
InputSubmit(url, limit) ==
    /\ MainReachable
    /\ ~isLoading
    /\ Len(sessions) + Len(timers) < limit
    /\ handleDownload(url, store.dailyDownloads, store.gateBypass)
    /\ UNCHANGED <<isSetupRequired, isAndroid, checkStatusCall, countCall,
                   persistedCount, timers, url_history, isInstalling,
                   setupError, installCall, events, bridge,
                   plugin>>

\* the user clicks a history entry: the timer callback keeps the
\* handleDownload of the render in which the click happened
handleUrlFromHistory(url, limit) ==
    /\ MainReachable
    /\ \E k \in 1..Len(url_history) : url_history[k].url = url
    /\ Len(sessions) + Len(timers) < limit
    /\ timers' = Append(timers, [url            |-> url,
                                 dailyDownloads |-> store.dailyDownloads,
                                 gateBypass     |-> store.gateBypass])
    /\ UNCHANGED <<store, isSetupRequired, isAndroid, checkStatusCall,
                   countCall, persistedCount, sessions, url_history,
                   isInstalling, setupError, installCall, events, bridge,
                   plugin>>

\* the 100 ms timer of handleUrlFromHistory fires
TimerFire ==
    /\ timers # << >>
    /\ handleDownload(Head(timers).url, Head(timers).dailyDownloads,
                      Head(timers).gateBypass)
    /\ timers' = Tail(timers)
    /\ UNCHANGED <<isSetupRequired, isAndroid, checkStatusCall, countCall,
                   persistedCount, url_history, isInstalling, setupError,
                   installCall, events, bridge,
                   plugin>>

ProbeResolve(i) ==
    /\ i \in 1..Len(sessions)
    /\ sessions[i].probe = "pending"
    /\ sessions' = [sessions EXCEPT ![i].probe = "resolved"]
    /\ store' = infoThen(store, VideoInfo(sessions[i].url))
    /\ UNCHANGED <<isSetupRequired, isAndroid, checkStatusCall, countCall,
                   persistedCount, timers, url_history, isInstalling,
                   setupError, installCall, events, bridge,
                   plugin>>

ProbeReject(i) ==
    /\ i \in 1..Len(sessions)
    /\ sessions[i].probe = "pending"
    /\ sessions' = [sessions EXCEPT ![i].probe = "rejected"]
    /\ UNCHANGED <<store, isSetupRequired, isAndroid, checkStatusCall,
                   countCall, persistedCount, timers, url_history,
                   isInstalling, setupError, installCall, events, bridge,
                   plugin>>

JobResolve(i, path) ==
    /\ i \in 1..Len(sessions)
    /\ sessions[i].job = "pending"
    /\ LET result == DownloadResult(sessions[i].url, path)
       IN  /\ sessions' = [sessions EXCEPT ![i].job = "resolved",
                                           ![i].outcome = result]
           /\ url_history' = addToHistory(url_history, sessions[i].url,
                                          result.title)
           /\ store' = downloadThen(store, result, sessions[i].dailyDownloads)
    /\ UNCHANGED <<isSetupRequired, isAndroid, checkStatusCall, countCall,
                   persistedCount, timers, isInstalling, setupError,
                   installCall, events, bridge,
                   plugin>>

\* addToHistory without its try blocks: the storage exception reaches the
\* catch block of handleDownload
JobResolveOnStorage_Throwing(i, path, fault) ==
    /\ i \in 1..Len(sessions)
    /\ sessions[i].job = "pending"
    /\ LET result == DownloadResult(sessions[i].url, path)
       IN  /\ sessions' = [sessions EXCEPT ![i].job = "resolved",
                                           ![i].outcome = result]
           /\ url_history' = addToHistoryOn(url_history, sessions[i].url,
                                            result.title, fault)
           /\ store' = IF fault.getItem \/ fault.setItem
                       THEN downloadCatch(store,
                                          [kind    |-> "Error",
                                           message |-> "storage"])
                       ELSE downloadThen(store, result,
                                         sessions[i].dailyDownloads)
    /\ UNCHANGED <<isSetupRequired, isAndroid, checkStatusCall, countCall,
                   persistedCount, timers, isInstalling, setupError,
                   installCall, events, bridge,
                   plugin>>

\* the job call resolves while localStorage may fail
JobResolveOnStorage(i, path, fault) ==
    /\ i \in 1..Len(sessions)
    /\ sessions[i].job = "pending"
    /\ LET result == DownloadResult(sessions[i].url, path)
       IN  /\ sessions' = [sessions EXCEPT ![i].job = "resolved",
                                           ![i].outcome = result]
           /\ url_history' = addToHistoryOn(url_history, sessions[i].url,
                                            result.title, fault)
           /\ store' = downloadThen(store, result, sessions[i].dailyDownloads)
    /\ UNCHANGED <<isSetupRequired, isAndroid, checkStatusCall, countCall,
                   persistedCount, timers, isInstalling, setupError,
                   installCall, events, bridge,
                   plugin>>

\* the catch block starting the session over by itself: a second probe and a
\* second job call for the same URL
JobReject_Retrying(i, thrown) ==
    /\ i \in 1..Len(sessions)
    /\ sessions[i].job = "pending"
    /\ sessions' = Append([sessions EXCEPT ![i].job = "rejected",
                                           ![i].outcome = thrown],
                          [url            |-> sessions[i].url,
                           dailyDownloads |-> sessions[i].dailyDownloads,
                           probe          |-> "pending",
                           job            |-> "pending",
                           outcome        |-> Null])
    /\ store' = downloadCatch(store, thrown)
    /\ UNCHANGED <<isSetupRequired, isAndroid, checkStatusCall, countCall,
                   persistedCount, timers, url_history, isInstalling,
                   setupError, installCall, events, bridge,
                   plugin>>

JobReject(i, thrown) ==
    /\ i \in 1..Len(sessions)
    /\ sessions[i].job = "pending"
    /\ sessions' = [sessions EXCEPT ![i].job = "rejected",
                                    ![i].outcome = thrown]
    /\ store' = downloadCatch(store, thrown)
    /\ UNCHANGED <<isSetupRequired, isAndroid, checkStatusCall, countCall,
                   persistedCount, timers, url_history, isInstalling,
                   setupError, installCall, events, bridge,
                   plugin>>

----------------------------------------------------------------------------
(* WarningScreen and LogViewer buttons                                     *)

handleBypass ==
    /\ WarningVisible /\ ~SetupVisible
    /\ store' = setGateWarning(setGateBypass(store, TRUE), FALSE)
    /\ UNCHANGED appVars

handleCancel ==
    /\ WarningVisible /\ ~SetupVisible
    /\ store' = setGateWarning(store, FALSE)
    /\ UNCHANGED appVars

ClearLogsClick ==
    /\ MainReachable
    /\ store.logs # << >>
    /\ store' = clearLogs(store)
    /\ UNCHANGED appVars

----------------------------------------------------------------------------
(* BinaryDownloader                                                        *)

\* the install button left enabled while an installation runs
handleInstall_Unguarded ==
    /\ SetupVisible
    /\ isInstalling' = TRUE
    /\ setupError' = Null
    /\ installCall' = "pending"
    /\ UNCHANGED <<store, isSetupRequired, isAndroid, checkStatusCall,
                   countCall, persistedCount, sessions, timers, url_history,
                   events, bridge,
                   plugin>>

handleInstall ==
    /\ SetupVisible
    /\ ~isInstalling
    /\ isInstalling' = TRUE
    /\ setupError' = Null
    /\ installCall' = "pending"
    /\ UNCHANGED <<store, isSetupRequired, isAndroid, checkStatusCall,
                   countCall, persistedCount, sessions, timers, url_history,
                   events, bridge,
                   plugin>>

InstallResolve ==
    /\ installCall = "pending"
    /\ installCall' = "none"
    /\ isSetupRequired' = "false"
    /\ UNCHANGED <<store, isAndroid, checkStatusCall, countCall,
                   persistedCount, sessions, timers, url_history,
                   isInstalling, setupError, events, bridge,
                   plugin>>

\* the failed installer call started again by the component itself
InstallReject_Retrying(err) ==
    /\ installCall = "pending"
    /\ installCall' = "pending"
    /\ setupError' = err
    /\ isInstalling' = TRUE
    /\ UNCHANGED <<store, isSetupRequired, isAndroid, checkStatusCall,
                   countCall, persistedCount, sessions, timers, url_history,
                   events, bridge,
                   plugin>>

InstallReject(err) ==
    /\ installCall = "pending"
    /\ installCall' = "none"
    /\ setupError' = err
    /\ isInstalling' = FALSE
    /\ UNCHANGED <<store, isSetupRequired, isAndroid, checkStatusCall,
                   countCall, persistedCount, sessions, timers, url_history,
                   events, bridge,
                   plugin>>

----------------------------------------------------------------------------

(* The controller with its startup effects and the warning screen.  The    *)
(* event relay, the log viewer and the installer act on parts of the state *)
(* the controller never reads back (progress, logs, the installer's own    *)
(* state); they are composed with it in the specifications further down.   *)

Startup ==
    \/ \E yt_dlp, ffmpeg \in BOOLEAN : CheckStatusResolve(yt_dlp, ffmpeg)
    \/ CheckStatusReject
    \/ LoadCountResolve
    \/ LoadCountReject

Continuations ==
    \/ TimerFire
    \/ \E i \in DOMAIN sessions : ProbeResolve(i)
    \/ \E i \in DOMAIN sessions : ProbeReject(i)
    \/ \E i \in DOMAIN sessions, path \in OutputPaths : JobResolve(i, path)
    \/ \E i \in DOMAIN sessions, thrown \in Thrown : JobReject(i, thrown)

Warning ==
    \/ handleBypass
    \/ handleCancel

Next ==
    \/ Startup
    \/ \E url \in Urls : InputSubmit(url, MaxSessions)
    \/ \E url \in Urls : handleUrlFromHistory(url, MaxSessions)
    \/ Continuations
    \/ Warning

Spec == Init /\ [][Next]_vars

----------------------------------------------------------------------------
(* The whole front end: the controller together with the event relay, the  *)
(* log viewer and the installer.                                           *)

ProgressPayloads == [progress : ProgressValues, status : StatusTexts]
LogPayloads == [level : LogLevels, message : {"line"}]
\* what install_sidecar rejects with (a message string, boxed in a record)
InstallErrors == {[text |-> "network"]}

Relay ==
    \/ \E payload \in ProgressPayloads : ProgressEvent(payload)
    \/ \E payload \in LogPayloads : LogEvent(payload)

Installer ==
    \/ handleInstall
    \/ InstallResolve
    \/ \E err \in InstallErrors : InstallReject(err)

AppNext ==
    \/ Next
    \/ Relay
    \/ ClearLogsClick
    \/ Installer

AppSpec == Init /\ [][AppNext]_vars

----------------------------------------------------------------------------
(* The life of the event subscriptions: the effect of App calls listen()   *)
(* for both streams and keeps the two promises; its cleanup attaches        *)
(* unlisten to each promise with then().                                   *)

Streams == {"progress", "log"}

\* the backend has registered the handler of a stream
ListenRegister(stream) ==
    /\ bridge[stream] = "requested"
    /\ bridge' = [bridge EXCEPT ![stream] = "registered"]
    /\ UNCHANGED <<store, isSetupRequired, isAndroid, checkStatusCall,
                   countCall, persistedCount, sessions, timers, url_history,
                   isInstalling, setupError, installCall, events,
                   plugin>>

\* the promise of listen() resolves; if the cleanup ran before, the then()
\* it attached calls unlisten now
ListenResolve(stream) ==
    /\ bridge[stream] = "registered"
    /\ bridge' = [bridge EXCEPT ![stream] = IF bridge.mounted
                                            THEN "subscribed"
                                            ELSE "unlistened"]
    /\ UNCHANGED <<store, isSetupRequired, isAndroid, checkStatusCall,
                   countCall, persistedCount, sessions, timers, url_history,
                   isInstalling, setupError, installCall, events,
                   plugin>>

\* the promise of listen() rejects: no handler is registered
ListenReject(stream) ==
    /\ bridge[stream] = "requested"
    /\ bridge' = [bridge EXCEPT ![stream] = "failed"]
    /\ UNCHANGED <<store, isSetupRequired, isAndroid, checkStatusCall,
                   countCall, persistedCount, sessions, timers, url_history,
                   isInstalling, setupError, installCall, events,
                   plugin>>

\* the cleanup of the effect: then(unlisten) on both promises; on a promise
\* already resolved the callback runs before any further event is handled
Teardown ==
    /\ bridge.mounted
    /\ bridge' = [progress |-> IF bridge.progress = "subscribed"
                               THEN "unlistened" ELSE bridge.progress,
                  log      |-> IF bridge.log = "subscribed"
                               THEN "unlistened" ELSE bridge.log,
                  mounted  |-> FALSE]
    /\ UNCHANGED <<store, isSetupRequired, isAndroid, checkStatusCall,
                   countCall, persistedCount, sessions, timers, url_history,
                   isInstalling, setupError, installCall, events,
                   plugin>>

BridgeInit ==
    /\ store = initialState
    /\ isAndroid \in BOOLEAN
    /\ isSetupRequired = IF isAndroid THEN "false" ELSE "null"
    /\ checkStatusCall = IF isAndroid THEN "none" ELSE "pending"
    /\ countCall = "pending"
    /\ persistedCount = 0
    /\ sessions = << >>
    /\ timers = << >>
    /\ url_history = << >>
    /\ isInstalling = FALSE
    /\ setupError = Null
    /\ installCall = "none"
    /\ events = 0
    /\ bridge = Requested
    /\ plugin = Loading

BridgeNext ==
    \/ \E stream \in Streams : ListenRegister(stream)
    \/ \E stream \in Streams : ListenResolve(stream)
    \/ \E stream \in Streams : ListenReject(stream)
    \/ Teardown
    \/ Relay
    \/ bridge.mounted /\ ClearLogsClick

BridgeSpec == BridgeInit /\ [][BridgeNext]_vars

----------------------------------------------------------------------------
(* The controller when every job call settles: start_download answers or   *)
(* fails in the end; nothing is assumed of get_video_info.                 *)

JobSettles ==
    \/ \E i \in DOMAIN sessions, path \in OutputPaths : JobResolve(i, path)
    \/ \E i \in DOMAIN sessions, thrown \in Thrown : JobReject(i, thrown)

LiveSpec == Spec /\ WF_vars(JobSettles)

----------------------------------------------------------------------------
(* The store on its own: its operations called in any order with any       *)
(* argument, as a client of useDownloadStore may call them.                *)

MetadataArgs == {Null, VideoInfo("u1"), DownloadResult("u1", "/m/x.mp3")}
ErrorArgs == {Null, [code |-> "DOWNLOAD_FAILED", message |-> "timeout"]}

StoreInit ==
    /\ store = initialState
    /\ isAndroid = FALSE
    /\ isSetupRequired = "null"
    /\ checkStatusCall = "pending"
    /\ countCall = "pending"
    /\ persistedCount = 0
    /\ sessions = << >>
    /\ timers = << >>
    /\ url_history = << >>
    /\ isInstalling = FALSE
    /\ setupError = Null
    /\ installCall = "none"
    /\ events = 0
    /\ bridge = Subscribed
    /\ plugin = Loading

StoreSetStatus(status) ==
    store' = setStatus(store, status) /\ UNCHANGED appVars

StoreSetProgress(progress) ==
    store' = setProgress(store, progress) /\ UNCHANGED appVars

StoreSetMetadata(metadata) ==
    store' = setMetadata(store, metadata) /\ UNCHANGED appVars

StoreSetError(error) ==
    store' = setError(store, error) /\ UNCHANGED appVars

StoreAddLog(level, message) ==
    /\ Len(store.logs) < MaxStoreLogs
    /\ store' = addLog(store, level, message)
    /\ UNCHANGED appVars

StoreClearLogs ==
    store' = clearLogs(store) /\ UNCHANGED appVars

StoreSetDailyDownloads(count) ==
    store' = setDailyDownloads(store, count) /\ UNCHANGED appVars

StoreSetGateWarning(isGateWarning) ==
    store' = setGateWarning(store, isGateWarning) /\ UNCHANGED appVars

StoreSetGateBypass(gateBypass) ==
    store' = setGateBypass(store, gateBypass) /\ UNCHANGED appVars

StoreReset ==
    store' = reset(store) /\ UNCHANGED appVars

StoreNext ==
    \/ \E status \in DownloadStatus : StoreSetStatus(status)
    \/ \E progress \in ProgressValues : StoreSetProgress(progress)
    \/ \E metadata \in MetadataArgs : StoreSetMetadata(metadata)
    \/ \E error \in ErrorArgs : StoreSetError(error)
    \/ \E level \in LogLevels : StoreAddLog(level, <<"line">>)
    \/ StoreClearLogs
    \/ \E count \in Counts : StoreSetDailyDownloads(count)
    \/ \E b \in BOOLEAN : StoreSetGateWarning(b)
    \/ \E b \in BOOLEAN : StoreSetGateBypass(b)
    \/ StoreReset

StoreSpec == StoreInit /\ [][StoreNext]_vars

----------------------------------------------------------------------------
(* A long stream of log lines: the backend sends numbered lines on the     *)
(* download-log stream and the listener appends each of them.               *)

\* the level of the n-th line
LevelOf(n) ==
    IF n % 4 = 0 THEN "info"
    ELSE IF n % 4 = 1 THEN "warn"
    ELSE IF n % 4 = 2 THEN "error"
    ELSE "success"

LogStream ==
    /\ Delivers("log")
    /\ events < MaxAppends
    /\ events' = events + 1
    /\ store' = logListener(store, [level   |-> LevelOf(events + 1),
                                    message |-> events + 1])
    /\ UNCHANGED <<isSetupRequired, isAndroid, checkStatusCall, countCall,
                   persistedCount, sessions, timers, url_history,
                   isInstalling, setupError, installCall, bridge,
                   plugin>>

LogSpec == StoreInit /\ [][LogStream]_vars

----------------------------------------------------------------------------
(* The persisted history at its cap: the user starts with a history of 0,  *)
(* 1, 19 or 20 entries and downloads URLs that are new, at the head or at  *)
(* the end of it; every download succeeds.                                 *)

\* twenty URLs downloaded on earlier days, oldest first
HistoryUrlList ==
    <<"h01", "h02", "h03", "h04", "h05", "h06", "h07", "h08", "h09", "h10",
      "h11", "h12", "h13", "h14", "h15", "h16", "h17", "h18", "h19", "h20">>

\* the history after the first n of them, most recent first
HistoryOf(n) ==
    [k \in 1..n |-> [url   |-> HistoryUrlList[n - k + 1],
                     title |-> Title(HistoryUrlList[n - k + 1])]]

InitialHistories ==
    {HistoryOf(0), HistoryOf(1), HistoryOf(HistoryCap - 1), HistoryOf(HistoryCap)}

HistoryUrls == {"u1", "u2", "h01", "h10", "h20"}

HistoryInit ==
    /\ store = initialState
    /\ isAndroid = TRUE
    /\ isSetupRequired = "false"
    /\ checkStatusCall = "none"
    /\ countCall = "pending"
    /\ persistedCount = 0
    /\ sessions = << >>
    /\ timers = << >>
    /\ url_history \in InitialHistories
    /\ isInstalling = FALSE
    /\ setupError = Null
    /\ installCall = "none"
    /\ events = 0
    /\ bridge = Subscribed
    /\ plugin = Loading

HistoryNext ==
    \/ \E url \in HistoryUrls : InputSubmit(url, MaxUpserts)
    \/ \E i \in DOMAIN sessions, path \in OutputPaths : JobResolve(i, path)

HistorySpec == HistoryInit /\ [][HistoryNext]_vars

----------------------------------------------------------------------------
(* Provisioning: the startup check, the installer and the form behind it.  *)

SetupNext ==
    \/ Startup
    \/ Installer
    \/ \E url \in Urls : InputSubmit(url, MaxSessions)

SetupSpec == Init /\ [][SetupNext]_vars

----------------------------------------------------------------------------
(* Two submissions: the user submits from the form and from the history    *)
(* list while the daily count is still the initial 0.                      *)

OverlapNext ==
    \/ \E url \in Urls : InputSubmit(url, MaxOverlap)
    \/ \E url \in Urls : handleUrlFromHistory(url, MaxOverlap)
    \/ Continuations

OverlapSpec == Init /\ [][OverlapNext]_vars

----------------------------------------------------------------------------
(* Downloads on a failing localStorage: the user submits from the form     *)
(* and the history read or write of a successful job may fail.             *)

StorageNext ==
    \/ \E url \in Urls : InputSubmit(url, MaxSessions)
    \/ \E i \in DOMAIN sessions : ProbeResolve(i)
    \/ \E i \in DOMAIN sessions : ProbeReject(i)
    \/ \E i \in DOMAIN sessions, path \in OutputPaths,
          fault \in StorageFaults : JobResolveOnStorage(i, path, fault)
    \/ \E i \in DOMAIN sessions, thrown \in Thrown : JobReject(i, thrown)

StorageSpec == HistoryInit /\ [][StorageNext]_vars

----------------------------------------------------------------------------
(* One session after the other: the backend reports progress and log lines *)
(* while a job runs, the job settles, and the user submits again from the  *)
(* form.                                                                   *)

SuccessionNext ==
    \/ \E url \in Urls : InputSubmit(url, MaxOverlap)
    \/ (\E i \in DOMAIN sessions : sessions[i].job = "pending") /\ Relay
    \/ \E i \in DOMAIN sessions, path \in OutputPaths : JobResolve(i, path)
    \/ \E i \in DOMAIN sessions, thrown \in Thrown : JobReject(i, thrown)

SuccessionSpec == Init /\ [][SuccessionNext]_vars

----------------------------------------------------------------------------
(* The safety gate over a whole range of daily counts: the startup load,   *)
(* the two ways of submitting and the warning screen; the calls a submit   *)
(* launches stay pending.                                                  *)

GateCounts == 0..MaxGateCount

GateInit ==
    /\ store = initialState
    /\ isAndroid \in BOOLEAN
    /\ isSetupRequired = IF isAndroid THEN "false" ELSE "null"
    /\ checkStatusCall = IF isAndroid THEN "none" ELSE "pending"
    /\ countCall = "pending"
    /\ persistedCount \in GateCounts
    /\ sessions = << >>
    /\ timers = << >>
    /\ url_history = <<[url |-> "u1", title |-> "t1"]>>
    /\ isInstalling = FALSE
    /\ setupError = Null
    /\ installCall = "none"
    /\ events = 0
    /\ bridge = Subscribed
    /\ plugin = Loading

GateNext ==
    \/ Startup
    \/ \E url \in Urls : InputSubmit(url, MaxSessions)
    \/ \E url \in Urls : handleUrlFromHistory(url, MaxSessions)
    \/ TimerFire
    \/ Warning

GateSpec == GateInit /\ [][GateNext]_vars

----------------------------------------------------------------------------
(* The Android plugin: initYtdlpSync, ensureInitialized, the four commands *)
(* and onDestroy.  Reads and writes of the volatile isInitialized, the     *)
(* entry of the synchronized block, the blocking engine calls and the      *)
(* withContext(Dispatchers.Main) blocks are the steps; withContext throws  *)
(* CancellationException instead of running its block when the scope has   *)
(* been cancelled, and again on its return when the scope was cancelled    *)
(* meanwhile.                                                              *)

frontVars == <<store, isSetupRequired, isAndroid, checkStatusCall, countCall,
               persistedCount, sessions, timers, url_history, isInstalling,
               setupError, installCall, events, bridge>>

At(t, pc) == t \in DOMAIN plugin.threads /\ plugin.threads[t].pc = pc

\* where a thread continues when initYtdlpSync returns: load() is finished,
\* ensureInitialized goes on to its second test
Returned(t) ==
    IF plugin.threads[t].command = "load" THEN "done" ELSE "recheck"

\* the webview invokes a command: parseArgs, then scope.launch
Invoke(command) ==
    /\ plugin.scope = "active"
    /\ Len(plugin.threads) < 1 + MaxInvokes
    /\ plugin' = [plugin EXCEPT
                     !.threads = Append(@, ThreadOf(command, "launched"))]
    /\ UNCHANGED frontVars

\* the launched coroutine is dispatched; one cancelled before never starts
Dispatch(t) ==
    /\ At(t, "launched")
    /\ plugin' = [plugin EXCEPT !.threads[t].pc =
                     IF plugin.scope # "active" THEN "dropped"
                     ELSE IF plugin.threads[t].command \in EnsuringCommands
                          THEN "ensure"
                          ELSE "request"]
    /\ UNCHANGED frontVars

\* ensureInitialized, first test: if (!isInitialized) initYtdlpSync()
EnsureTest(t) ==
    /\ At(t, "ensure")
    /\ plugin' = [plugin EXCEPT !.threads[t].pc =
                     IF plugin.isInitialized THEN "recheck" ELSE "check1"]
    /\ UNCHANGED frontVars

\* initYtdlpSync: if (isInitialized) return, outside the lock
FirstCheck(t) ==
    /\ At(t, "check1")
    /\ plugin' = [plugin EXCEPT !.threads[t].pc =
                     IF plugin.isInitialized THEN Returned(t) ELSE "lock"]
    /\ UNCHANGED frontVars

\* initYtdlpSync entering its block with no monitor taken
MonitorEnter_Unsynchronized(t) ==
    /\ At(t, "lock")
    /\ plugin' = [plugin EXCEPT !.threads[t].pc = "check2"]
    /\ UNCHANGED frontVars

\* synchronized(initLock): the thread enters when no thread holds the monitor
MonitorEnter(t) ==
    /\ At(t, "lock")
    /\ plugin.initLock = 0
    /\ plugin' = [plugin EXCEPT !.initLock = t,
                                !.threads[t].pc = "check2"]
    /\ UNCHANGED frontVars

\* if (isInitialized) return, inside the lock; returning leaves the monitor
SecondCheck(t) ==
    /\ At(t, "check2")
    /\ plugin' = IF plugin.isInitialized
                 THEN [plugin EXCEPT !.initLock = 0,
                                     !.threads[t].pc = Returned(t)]
                 ELSE [plugin EXCEPT !.threads[t].pc = "init"]
    /\ UNCHANGED frontVars

\* YoutubeDL.getInstance().init(...) returns
InitReturns(t) ==
    /\ At(t, "init")
    /\ plugin' = [plugin EXCEPT !.inits = @ + 1,
                                !.threads[t].pc = "assign"]
    /\ UNCHANGED frontVars

\* init throws: the catch block logs, the block ends and leaves the monitor
InitThrows(t) ==
    /\ At(t, "init")
    /\ plugin' = [plugin EXCEPT !.initLock = 0,
                                !.threads[t].pc = Returned(t)]
    /\ UNCHANGED frontVars

\* isInitialized = true, then the block ends and leaves the monitor
Assign(t) ==
    /\ At(t, "assign")
    /\ plugin' = [plugin EXCEPT !.isInitialized = TRUE,
                                !.initLock = 0,
                                !.threads[t].pc = Returned(t)]
    /\ UNCHANGED frontVars

\* ensureInitialized, second test: throw IllegalStateException if it is
\* still false
EnsureThrow(t) ==
    /\ At(t, "recheck")
    /\ plugin' = [plugin EXCEPT !.threads[t].pc =
                     IF plugin.isInitialized THEN "request" ELSE "catch"]
    /\ UNCHANGED frontVars

\* the engine request of the command (getInfo, execute, updateYoutubeDL,
\* version) returns; the calls block and take no notice of a cancellation
RequestReturns(t) ==
    /\ At(t, "request")
    /\ plugin' = [plugin EXCEPT !.threads[t].pc = "resolve"]
    /\ UNCHANGED frontVars

RequestThrows(t) ==
    /\ At(t, "request")
    /\ plugin' = [plugin EXCEPT !.threads[t].pc = "catch"]
    /\ UNCHANGED frontVars

\* withContext(Dispatchers.Main) { invoke.resolve(ret) }
Resolve(t) ==
    /\ At(t, "resolve")
    /\ plugin' = IF plugin.scope = "active"
                 THEN [plugin EXCEPT !.threads[t].resolved = @ + 1,
                                     !.threads[t].pc = "resolved"]
                 ELSE [plugin EXCEPT !.threads[t].pc = "catch"]
    /\ UNCHANGED frontVars

\* the coroutine resumes after the resolve block
ResolveReturns(t) ==
    /\ At(t, "resolved")
    /\ plugin' = [plugin EXCEPT !.threads[t].pc =
                     IF plugin.scope = "active" THEN "done" ELSE "catch"]
    /\ UNCHANGED frontVars

\* catch (e: Exception): withContext(Dispatchers.Main) { invoke.reject(..) };
\* the CancellationException of a cancelled scope leaves the coroutine
Reject(t) ==
    /\ At(t, "catch")
    /\ plugin' = IF plugin.scope = "active"
                 THEN [plugin EXCEPT !.threads[t].rejected = @ + 1,
                                     !.threads[t].pc = "done"]
                 ELSE [plugin EXCEPT !.threads[t].pc = "done"]
    /\ UNCHANGED frontVars

\* onDestroy: scope.cancel()
onDestroy ==
    /\ plugin.scope = "active"
    /\ plugin' = [plugin EXCEPT !.scope = "cancelled"]
    /\ UNCHANGED frontVars

initYtdlpSync(t) ==
    \/ FirstCheck(t)
    \/ MonitorEnter(t)
    \/ SecondCheck(t)
    \/ InitReturns(t)
    \/ InitThrows(t)
    \/ Assign(t)

ensureInitialized(t) ==
    \/ EnsureTest(t)
    \/ initYtdlpSync(t)
    \/ EnsureThrow(t)

CommandRuns(t) ==
    \/ Dispatch(t)
    \/ ensureInitialized(t)
    \/ RequestReturns(t)
    \/ RequestThrows(t)
    \/ Resolve(t)
    \/ ResolveReturns(t)
    \/ Reject(t)

PluginInit == Init /\ isAndroid /\ persistedCount = 0

PluginNext ==
    \/ \E command \in Commands : Invoke(command)
    \/ \E t \in DOMAIN plugin.threads : CommandRuns(t)
    \/ onDestroy

PluginSpec == PluginInit /\ [][PluginNext]_vars

----------------------------------------------------------------------------
(* Properties                                                              *)

\* steps of the controller, read off the two states of a step
Launched == Len(sessions') > Len(sessions)

ProbeRan(i) ==
    sessions[i].probe = "pending" /\ sessions'[i].probe # "pending"

JobResolved(i) ==
    sessions[i].job = "pending" /\ sessions'[i].job = "resolved"

JobRejected(i) ==
    sessions[i].job = "pending" /\ sessions'[i].job = "rejected"

Settled(i) == sessions[i].probe # "pending" /\ sessions[i].job # "pending"

AllSettled ==
    /\ sessions # << >>
    /\ timers = << >>
    /\ \A i \in DOMAIN sessions : Settled(i)

\* C1: the status a submit ends in is the one its job call gives it: the
\* continuation of a resolved job leaves status success, the catch block of a
\* rejected job leaves status error, and the probe continuation, before or
\* after, leaves status as it found it; so once every launched submit has
\* settled, status is success or error, success only if a job resolved and
\* error only if a job rejected.
C1_FinalStatusFromJob ==
    /\ [](AllSettled =>
            /\ store.status \in {"success", "error"}
            /\ store.status = "success" =>
                   \E i \in DOMAIN sessions : sessions[i].job = "resolved"
            /\ store.status = "error" =>
                   \E i \in DOMAIN sessions : sessions[i].job = "rejected")
    /\ [][\A i \in DOMAIN sessions :
            /\ JobResolved(i) => store'.status = "success"
            /\ JobRejected(i) => store'.status = "error"
            /\ ProbeRan(i) => store'.status = store.status]_vars

\* a probe that resolved after its job had failed (it stored its metadata and
\* cleared the error) and left the status the job gave
C1_Witness ==
    \E i \in DOMAIN sessions :
        /\ sessions[i].job = "rejected"
        /\ sessions[i].probe = "resolved"
        /\ store.metadata = VideoInfo(sessions[i].url)
        /\ store.error = Null
        /\ store.status = "error"

\* C2: error is non-null if and only if status is error.
C2_ErrorIffStatusError ==
    (store.error # Null) <=> (store.status = "error")

\* C3: when the job call of the latest submit rejected with message m and its
\* probe continuation has run too, status is error and error is
\* {code: DOWNLOAD_FAILED, message: m}.
C3_JobFailureSurfaced ==
    \A i \in DOMAIN sessions :
        (/\ i = Len(sessions)
         /\ timers = << >>
         /\ \A j \in DOMAIN sessions : Settled(j)
         /\ sessions[i].job = "rejected")
        => /\ store.status = "error"
           /\ store.error = [code    |-> "DOWNLOAD_FAILED",
                             message |-> errorMessage(sessions[i].outcome)]

\* C4: status = success implies metadata is non-null.
C4_SuccessHasMetadata ==
    store.status = "success" => store.metadata # Null

\* C5: whenever a probe and a job call are launched, the daily counter is
\* below 25 or the bypass flag is set, at that moment.
C5_GateOnCurrentValues ==
    [][Launched => (store.dailyDownloads < GateLimit \/ store.gateBypass)]_vars

\* the number of sessions whose job call resolved
Successes ==
    Cardinality({i \in DOMAIN sessions : sessions[i].job = "resolved"})

\* the value the startup load reconciled the counter to
Reconciled == IF countCall = "resolved" THEN persistedCount ELSE 0

\* C6: once the startup load has set the counter to n, the counter equals
\* n + k, k the number of sessions completed successfully.
C6_CounterIsLoadPlusSuccesses ==
    countCall # "pending" => store.dailyDownloads = Reconciled + Successes

\* C7: no step decreases the daily counter.
C7_CounterNeverDecreases ==
    [][store'.dailyDownloads >= store.dailyDownloads]_vars

\* C8: the daily counter changes only in the continuation of a resolved job
\* call (and at the startup load, which sets it): a failed job and a warned
\* submit leave it as it is.
C8_CounterOnlyOnSuccess ==
    [][/\ store'.dailyDownloads # store.dailyDownloads =>
              \/ countCall = "pending" /\ countCall' # "pending"
              \/ \E i \in DOMAIN sessions : JobResolved(i)
       /\ \A i \in DOMAIN sessions :
              JobRejected(i) => store'.dailyDownloads = store.dailyDownloads
       /\ (~Launched /\ store'.isGateWarning /\ ~store.isGateWarning
             /\ countCall' = countCall /\ sessions' = sessions) =>
              store'.dailyDownloads = store.dailyDownloads]_vars

\* a failed job and a warned submit, the counter still at the loaded value
C8_Witness ==
    /\ countCall = "resolved"
    /\ store.dailyDownloads = persistedCount
    /\ \/ \E i \in DOMAIN sessions : sessions[i].job = "rejected"
       \/ /\ store.isGateWarning
          /\ store.dailyDownloads >= GateLimit
          /\ store.dailyDownloads < AutoWarnLimit

\* C9: whenever a probe and a job call are launched, the tool check has
\* answered and setup is not required.
C9_NoSessionBeforeProvisioning ==
    [][Launched => isSetupRequired = "false"]_vars

\* a run of handleDownload, from the form or from a history timer
HandleDownloadRuns ==
    \/ \E url \in Urls : InputSubmit(url, MaxSessions)
    \/ TimerFire

\* C10: a submit made while the daily counter is at least 25 and the bypass
\* flag is false shows the warning, launches nothing and leaves status,
\* metadata, error, progress, logs and the counter as they were.
C10_WarnedSubmitFrame ==
    [][(HandleDownloadRuns /\ store.dailyDownloads >= GateLimit
            /\ ~store.gateBypass) =>
          /\ store'.isGateWarning
          /\ ~Launched
          /\ store' = [store EXCEPT !.isGateWarning = TRUE]]_vars

\* the reference gate function: proceed below 25 or with the bypass flag
\* set, warn otherwise
evaluate(dailyCount, bypassFlag) ==
    IF dailyCount < 25 \/ bypassFlag THEN "proceed" ELSE "warn"

\* what a run of handleDownload did, against the reference function on the
\* count and flag the run was given
DecidedAs(dailyCount, bypassFlag) ==
    /\ evaluate(dailyCount, bypassFlag) = "proceed" =>
           /\ Launched
           /\ store'.isGateWarning = store.isGateWarning
    /\ evaluate(dailyCount, bypassFlag) = "warn" =>
           /\ ~Launched
           /\ store'.isGateWarning

\* C11: the gate decision of a submit equals the reference function for every
\* daily count of the range and both bypass values: the submit launches its
\* calls if the count is below 25 or the bypass flag is set, and shows the
\* warning without launching otherwise; a count of 40 or more with the bypass
\* flag set still proceeds.
C11_GateDecision ==
    [][/\ \A url \in Urls :
              InputSubmit(url, MaxSessions) =>
                  DecidedAs(store.dailyDownloads, store.gateBypass)
       /\ TimerFire =>
              DecidedAs(Head(timers).dailyDownloads, Head(timers).gateBypass)]_vars

\* a submit that went ahead at a count of 40 or more with the bypass flag set
C11_Witness ==
    /\ sessions # << >>
    /\ store.gateBypass
    /\ store.dailyDownloads >= HardIndicator
    /\ store.status = "validating"

\* C12: once the user's override has set the bypass flag, the flag stays set:
\* no step of the running front end (startup load, submit, probe or job
\* continuation, warning-screen button, relayed event, log clearing,
\* installer) takes it back.
C12_BypassStays ==
    [][store.gateBypass => store'.gateBypass]_vars

\* a session let through by the override (its count was 25 or more) has run
\* to the end, and the flag is still set
C12_Witness ==
    /\ store.gateBypass
    /\ \E i \in DOMAIN sessions :
           /\ sessions[i].dailyDownloads >= GateLimit
           /\ sessions[i].probe = "resolved"
           /\ sessions[i].job = "resolved"

\* C13: when the job call of a submit resolves with r, then once the probe
\* continuation has run too, metadata is r (its outputPath included) and
\* status is success, whether the probe resolved before the job, after it, or
\* rejected: the job continuation stores r and sets success over whatever the
\* probe left, and a probe continuation that runs on that state changes
\* neither.
C13_JobResultStands ==
    /\ [](\A i \in DOMAIN sessions :
            (/\ Len(sessions) = 1
             /\ sessions[i].job = "resolved"
             /\ sessions[i].probe # "pending")
            => /\ store.status = "success"
               /\ store.metadata = sessions[i].outcome)
    /\ [][\A i \in DOMAIN sessions :
            /\ JobResolved(i) =>
                   /\ store'.status = "success"
                   /\ store'.metadata = sessions'[i].outcome
            /\ (/\ ProbeRan(i)
                /\ sessions[i].job = "resolved"
                /\ store.status = "success"
                /\ store.metadata = sessions[i].outcome)
               => /\ store'.status = "success"
                  /\ store'.metadata = sessions[i].outcome]_vars

\* the probe resolved after the job (no "Found" line was logged) and the
\* metadata still carries the job's output path
C13_Witness ==
    \E i \in DOMAIN sessions :
        /\ sessions[i].job = "resolved"
        /\ sessions[i].probe = "resolved"
        /\ sessions[i].outcome.outputPath # ""
        /\ store.metadata = sessions[i].outcome
        /\ store.status = "success"
        /\ \A k \in DOMAIN store.logs : Head(store.logs[k].message) # "Found"

\* C14: running the probe continuation never changes status: whenever the
\* probe call of a session resolves or rejects, status after the continuation
\* is the status before it; the probe moves no session to success or error.
C14_ProbeKeepsStatus ==
    [][\A i \in DOMAIN sessions :
          (sessions[i].probe = "pending"
             /\ sessions'[i].probe \in {"resolved", "rejected"})
          => store'.status = store.status]_vars

\* the probe answered first: its metadata is stored and the session is still
\* validating, its job call pending
C14_Witness ==
    \E i \in DOMAIN sessions :
        /\ sessions[i].probe = "resolved"
        /\ sessions[i].job = "pending"
        /\ store.metadata = VideoInfo(sessions[i].url)
        /\ store.status = "validating"

\* C15: for a submit that passes the gate from status idle and whose probe
\* and job calls both succeed, the distinct status values observed are
\* exactly idle, validating, success, in either resolution order: status is
\* idle until the submit, validating from the submit until the job resolves
\* (never success before), and success from then on (never validating again).
C15_StatusSequence ==
    /\ [](sessions = << >> => store.status = "idle")
    /\ []((Len(sessions) = 1 /\ sessions[1].probe # "rejected") =>
            /\ sessions[1].job = "pending" => store.status = "validating"
            /\ sessions[1].job = "resolved" => store.status = "success")
    /\ [][(/\ Len(sessions') = 1
           /\ sessions'[1].probe # "rejected"
           /\ sessions'[1].job # "rejected"
           /\ store'.status # store.status)
          => \/ /\ store.status = "idle"
                /\ store'.status = "validating"
                /\ Launched
             \/ /\ store.status = "validating"
                /\ store'.status = "success"
                /\ JobResolved(1)]_vars

\* the probe answered first (its "Found" line is in the log), then the job
\* resolved: the session went idle, validating, success
C15_Witness ==
    /\ Len(sessions) = 1
    /\ sessions[1].probe = "resolved"
    /\ sessions[1].job = "resolved"
    /\ store.status = "success"
    /\ \E k \in DOMAIN store.logs : Head(store.logs[k].message) = "Found"

\* C16: submit never throws, and every job failure is represented as status
\* error with a {code, message} value: while the submit whose job call
\* rejected is the only one made, status is error and error is the record
\* {code: DOWNLOAD_FAILED, message: text of what was thrown}, for an Error and
\* for a non-Error value alike.
C16_FailureRepresented ==
    (Len(sessions) = 1 /\ sessions[1].job = "rejected") =>
        /\ store.status = "error"
        /\ store.error # Null
        /\ store.error.code = "DOWNLOAD_FAILED"
        /\ store.error.message = errorMessage(sessions[1].outcome)

\* C17: setMetadata(m) with non-null m stores m as metadata and clears error;
\* it sets status to success when the current status is idle or success, and
\* keeps the status when it is validating, downloading or converting.
C17_SetMetadataStores ==
    [][\A m \in MetadataArgs \ {Null} :
          StoreSetMetadata(m) =>
              /\ store'.metadata = m
              /\ store'.error = Null
              /\ store.status \in {"idle", "success"} =>
                     store'.status = "success"
              /\ store.status \in {"validating", "downloading", "converting"} =>
                     store'.status = store.status]_vars

\* metadata with an output path stored while the status is mid-flight
C17_Witness ==
    /\ store.status = "converting"
    /\ store.metadata = DownloadResult("u1", "/m/x.mp3")
    /\ store.error = Null

\* C18: setStatus(next) from any prior state yields status = next; metadata
\* is null if next is idle and unchanged otherwise; error is null if next is
\* not error and unchanged if next is error.  In particular setStatus(idle)
\* always yields metadata = null and error = null.
C18_SetStatusEffect ==
    [][\A next \in DownloadStatus :
          StoreSetStatus(next) =>
              /\ store'.status = next
              /\ store'.metadata = IF next = "idle" THEN Null ELSE store.metadata
              /\ store'.error = IF next = "error" THEN store.error ELSE Null
              /\ next = "idle" => store'.metadata = Null /\ store'.error = Null]_vars

\* a status only setStatus gives, with the metadata stored before still there
C18_Witness ==
    /\ store.status = "validating"
    /\ store.metadata # Null
    /\ store.error = Null

\* C19: setError(e) with non-null e sets status to error and error to e from
\* any prior state, and leaves metadata, progress, logs and the gate and
\* counter fields unchanged.
C19_SetErrorEffect ==
    [][\A e \in ErrorArgs \ {Null} :
          StoreSetError(e) =>
              /\ store'.status = "error"
              /\ store'.error = e
              /\ store'.metadata = store.metadata
              /\ store'.progress = store.progress
              /\ store'.logs = store.logs
              /\ store'.dailyDownloads = store.dailyDownloads
              /\ store'.isGateWarning = store.isGateWarning
              /\ store'.gateBypass = store.gateBypass]_vars

\* an error stored over metadata and progress that are still there
C19_Witness ==
    /\ store.status = "error"
    /\ store.error = [code |-> "DOWNLOAD_FAILED", message |-> "timeout"]
    /\ store.metadata # Null
    /\ store.progress = 50

\* C20: setMetadata(null) and setError(null) are no-ops: from any prior
\* state, the whole state after the call equals the state before it.
C20_NullArgumentsNoOp ==
    /\ setMetadata(store, Null) = store
    /\ setError(store, Null) = store

\* a state with every field away from its initial value, which both calls
\* hand back as it is
C20_Witness ==
    /\ store.status = "error"
    /\ store.error # Null
    /\ store.metadata # Null
    /\ store.progress = 100
    /\ store.dailyDownloads = 45
    /\ store.isGateWarning
    /\ store.gateBypass
    /\ store.logs # << >>

\* the integers setProgress is tried on in every reachable state
ProgressRange == -5..150

\* the value of [0,100] nearest to p
Clamped(p) == IF p < 0 THEN 0 ELSE IF p > 100 THEN 100 ELSE p

\* C21: setProgress(p) stores min(100, max(0, p)) for every integer p (150
\* is stored as 100, -5 as 0) and changes nothing else, so progress is within
\* [0,100] in every reachable state, also after the values progress events
\* deliver.
C21_ProgressClamped ==
    /\ [](/\ store.progress \in 0..100
          /\ \A p \in ProgressRange :
                 setProgress(store, p) = [store EXCEPT !.progress = Clamped(p)]
          /\ setProgress(store, 150).progress = 100
          /\ setProgress(store, -5).progress = 0)
    /\ [][\A payload \in ProgressPayloads :
            ProgressEvent(payload) =>
                /\ store'.progress = Clamped(payload.progress)
                /\ store'.status = store.status]_vars

\* a progress event delivered 150 and 100 is what the store holds
C21_Witness ==
    /\ events > 0
    /\ store.progress = 100

\* C22: after any sequence of log appends the log holds at most 1000 entries,
\* and they are exactly the most recently appended ones in their original
\* order: after n appends the entries are the lines n - Len + 1 .. n, and
\* after 1500 appends the last 1000, the oldest 500 evicted.
C22_LogKeepsLastThousand ==
    /\ Len(store.logs) = Min(events, 1000)
    /\ \A k \in 1..Len(store.logs) :
           /\ store.logs[k].message = <<events - Len(store.logs) + k>>
           /\ store.logs[k].level = LevelOf(events - Len(store.logs) + k)

\* 1500 lines appended: 1000 entries, the first of them line 501
C22_Witness ==
    /\ events = 1500
    /\ Len(store.logs) = 1000
    /\ store.logs[1].message = <<501>>
    /\ store.logs[1000].message = <<1500>>

\* C23: the log is append-only: after every step the log is the log before,
\* minus an evicted oldest prefix only when the bound of 1000 is exceeded,
\* followed by zero or more new entries; no step empties or reorders it.
C23_LogAppendOnly ==
    [][\E d \in 0..Len(store.logs) :
          /\ d > 0 => Len(store'.logs) = 1000
          /\ Len(store'.logs) >= Len(store.logs) - d
          /\ SubSeq(store'.logs, 1, Len(store.logs) - d)
                 = SubSeq(store.logs, d + 1, Len(store.logs))]_vars

\* the entries of a history other than the one of a URL, up to position b
SurvivorsUpTo(history, url, b) ==
    Cardinality({c \in 1..b : history[c].url # url})

C25_InstallFailureRetryable ==
    [][/\ \A err \in InstallErrors :
              InstallReject(err) =>
                  /\ ~isInstalling'
                  /\ setupError' = err
                  /\ isSetupRequired' = "true"
                  /\ installCall' = "none"
       /\ (installCall = "none" /\ installCall' = "pending") => handleInstall
       /\ (installCall = "none" /\ setupError # Null /\ ~handleInstall) =>
              /\ installCall' = "none"
              /\ isSetupRequired' = "true"
              /\ setupError' = setupError
              /\ ~isInstalling']_vars

\* the installer failed and nothing has been started since
C25_Witness ==
    /\ setupError = [text |-> "network"]
    /\ ~isInstalling
    /\ installCall = "none"
    /\ isSetupRequired = "true"

\* C26: after the startup check, required is false on the mobile platform,
\* with no tool-presence query issued; otherwise it is true if and only if at
\* least one of the two tools is reported absent; and it is true when the
\* presence query itself fails.
C26_StartupCheck ==
    /\ [](isAndroid => isSetupRequired = "false" /\ checkStatusCall = "none")
    /\ []((~isAndroid /\ checkStatusCall = "pending") =>
             isSetupRequired = "null")
    /\ [][\A yt_dlp, ffmpeg \in BOOLEAN :
            CheckStatusResolve(yt_dlp, ffmpeg) =>
                isSetupRequired' = IF yt_dlp /\ ffmpeg THEN "false" ELSE "true"]_vars
    /\ [][CheckStatusReject => isSetupRequired' = "true"]_vars

\* the desktop check found both tools: no setup, and no installer ever ran
C26_Witness ==
    /\ ~isAndroid
    /\ checkStatusCall = "done"
    /\ isSetupRequired = "false"
    /\ installCall = "none"
    /\ ~isInstalling

\* C27: after the teardown of the event subscriptions has run, no progress or
\* log event changes the session state any more, on every exit path: also
\* when the teardown runs before a subscription has completed, and when a
\* subscription fails.
C27_NoEventAfterTeardown ==
    [][~bridge.mounted => store' = store]_vars

\* C28: the safety gate enforces a limit of 50 daily downloads: without the
\* user's override, a submission is stopped exactly when the daily count has
\* reached 50, so 50 is the first count at which the gate stops one.
C28_GateLimitFifty ==
    [][\A url \in Urls :
          (InputSubmit(url, MaxSessions) /\ ~store.gateBypass) =>
              (Launched <=> store.dailyDownloads < 50)]_vars

\* the job calls in flight
JobsInFlight == {i \in DOMAIN sessions : sessions[i].job = "pending"}

\* C29: at most one job call is in flight at any time: a submission made,
\* from the input field or from the history list, while a session is
\* validating, downloading or converting launches no second probe or job
\* call.
C29_OneJobInFlight ==
    Cardinality(JobsInFlight) <= 1

\* C30: if a submit passes the gate and its job call eventually settles, then
\* status eventually becomes success or error and does not stay validating,
\* whatever the probe call does (resolves early, resolves late, rejects, or
\* never settles).
C30_JobSettlesStatus ==
    \A i \in 1..MaxSessions :
        (Len(sessions) >= i /\ sessions[i].job = "pending")
            ~> (store.status \in {"success", "error"})

\* the job failed and the probe has not answered: status is error
C30_Witness ==
    \E i \in DOMAIN sessions :
        /\ sessions[i].job = "rejected"
        /\ sessions[i].probe = "pending"
        /\ store.status = "error"
        /\ store.error # Null

\* C31: a probe result is applied only to the session that launched it: once
\* a later submit has started a session, the probe continuation of an earlier
\* submit writes neither metadata nor a "Found" line into the state.
C31_ProbeOnlyOwnSession ==
    [][\A i \in DOMAIN sessions :
          (ProbeRan(i) /\ i < Len(sessions)) =>
              /\ store'.metadata = store.metadata
              /\ store'.logs = store.logs]_vars

\* C32: the gate warning becomes visible only as the direct result of a
\* submit whose gate decision was warn: a step that makes it visible is a run
\* of handleDownload that launched nothing, never the startup count load or
\* the continuation of a successful job, and never a step taken while the
\* bypass flag is true; and a step that hides a visible warning is the
\* user's cancel or override.
C32_WarningOnlyFromGate ==
    [][/\ (~store.isGateWarning /\ store'.isGateWarning) =>
              /\ HandleDownloadRuns
              /\ ~Launched
              /\ ~store.gateBypass
       /\ (store.isGateWarning /\ ~store'.isGateWarning) =>
              (handleBypass \/ handleCancel)]_vars

\* the store fields the event relay leaves alone
SessionFrame(state) ==
    [status         |-> state.status,
     metadata       |-> state.metadata,
     error          |-> state.error,
     dailyDownloads |-> state.dailyDownloads,
     isGateWarning  |-> state.isGateWarning,
     gateBypass     |-> state.gateBypass]

\* C33: the event relay is a pure mapping with no deduplication: a progress
\* event {progress, status} sets progress to the clamped value and appends
\* exactly one info entry if and only if status is non-empty; a log event
\* appends exactly one entry with its level and message; an event equal to
\* the one before is relayed again in full; neither kind changes status,
\* metadata, error, the daily counter or the gate state.
C33_RelayIsPureMapping ==
    /\ [][/\ \A payload \in ProgressPayloads :
             ProgressEvent(payload) =>
                 /\ store'.progress = Clamped(payload.progress)
                 /\ store'.logs =
                        IF payload.status # ""
                        THEN Append(store.logs,
                                    [level   |-> "info",
                                     message |-> <<payload.status>>])
                        ELSE store.logs
                 /\ SessionFrame(store') = SessionFrame(store)
          /\ \A payload \in LogPayloads :
             LogEvent(payload) =>
                 /\ store'.logs =
                        Append(store.logs,
                               [level   |-> payload.level,
                                message |-> <<payload.message>>])
                 /\ SessionFrame(store') = SessionFrame(store)]_vars
    /\ [](/\ \A payload \in LogPayloads :
              LET twice == logListener(logListener(store, payload), payload)
              IN  /\ Len(twice.logs) = Len(store.logs) + 2
                  /\ SessionFrame(twice) = SessionFrame(store)
          /\ \A payload \in ProgressPayloads :
              LET twice == progressListener(progressListener(store, payload),
                                            payload)
              IN  /\ Len(twice.logs) =
                         Len(store.logs)
                             + (IF payload.status # "" THEN 2 ELSE 0)
                  /\ SessionFrame(twice) = SessionFrame(store))

\* a progress event with a status text was relayed: the clamped value is
\* stored and its text is the last log entry
C33_Witness ==
    /\ events > 0
    /\ store.progress = 100
    /\ store.logs # << >>
    /\ store.logs[Len(store.logs)] =
           [level |-> "info", message |-> <<"Downloading">>]

\* a run of handleDownload among two submissions
SubmitRuns ==
    \/ \E url \in Urls : InputSubmit(url, MaxOverlap)
    \/ TimerFire

\* C34: each submit that passes the gate launches the probe call once and
\* the job call once: the calls of a session are launched together by a run
\* of handleDownload, and a call that has settled is never launched again;
\* after a job failure no call is launched until the user submits again: the
\* step of the failure launches none, and every later launch is a run of
\* handleDownload.
C34_CallsLaunchedOnce ==
    [][/\ (\E url \in Urls : InputSubmit(url, MaxOverlap)
              /\ ~GateWarns(store.dailyDownloads, store.gateBypass))
          => Launched
       /\ (TimerFire /\ ~GateWarns(Head(timers).dailyDownloads,
                                   Head(timers).gateBypass))
          => Launched
       /\ Launched =>
              /\ SubmitRuns
              /\ Len(sessions') = Len(sessions) + 1
              /\ sessions'[Len(sessions')].probe = "pending"
              /\ sessions'[Len(sessions')].job = "pending"
       /\ \A i \in DOMAIN sessions :
              /\ i \in DOMAIN sessions'
              /\ sessions'[i].url = sessions[i].url
              /\ sessions'[i].probe = "pending" =>
                     sessions[i].probe = "pending"
              /\ sessions'[i].job = "pending" => sessions[i].job = "pending"
              /\ JobRejected(i) => ~Launched]_vars

\* the job of the first submit failed, its probe answered, and the calls of
\* the user's second submit are in flight
C34_Witness ==
    /\ Len(sessions) = 2
    /\ sessions[1].job = "rejected"
    /\ sessions[1].probe = "resolved"
    /\ sessions[2].probe = "pending"
    /\ sessions[2].job = "pending"
    /\ store.status = "validating"

\* C35: a failure to read or write the persisted history during a
\* successful job never changes the session outcome: whenever a job call
\* resolves, whatever localStorage does, status becomes success, metadata is
\* the job result and the daily counter is one more than before.
C35_HistoryFailureHarmless ==
    [][\A i \in DOMAIN sessions :
          JobResolved(i) =>
              /\ store'.status = "success"
              /\ store'.error = Null
              /\ store'.metadata = sessions'[i].outcome
              /\ store'.dailyDownloads = store.dailyDownloads + 1]_vars

\* the job succeeded on a storage that refused the write: the history is
\* still empty, the session ended in success and was counted
C35_Witness ==
    /\ Len(sessions) = 1
    /\ sessions[1].job = "resolved"
    /\ url_history = << >>
    /\ store.status = "success"
    /\ store.metadata = sessions[1].outcome
    /\ store.dailyDownloads = 1

\* C36: whenever a new session starts (status becomes validating on a submit
\* that passed the gate), progress is 0: the last progress value of the
\* session before is not carried into the new one.
C36_ProgressResetOnStart ==
    [][(Launched /\ store'.status = "validating") =>
           store'.progress = 0]_vars

\* C37: at most one installer call is in flight at any time: installing is
\* true for the whole time an installer call is pending, and the install
\* button can be triggered only while installing is false, hence only while
\* no installer call is pending.
C37_OneInstallerCall ==
    /\ installCall = "pending" => isInstalling
    /\ ENABLED handleInstall => (~isInstalling /\ installCall = "none")

\* an installer call is pending on the setup screen and the button cannot
\* be triggered
C37_Witness ==
    /\ SetupVisible
    /\ installCall = "pending"
    /\ isInstalling
    /\ ~ENABLED handleInstall

\* the threads running the engine's init
Initializing == {t \in DOMAIN plugin.threads : plugin.threads[t].pc = "init"}

\* C38: in the Android plugin, engine initialization is mutually exclusive
\* and succeeds at most once: no two threads run the engine's init at the
\* same time, isInitialized is true only after an init returned without an
\* exception, once true it never becomes false, and extractInfo and download
\* never execute an engine request while isInitialized is false.
C38_InitExclusiveAndOnce ==
    /\ [](/\ Cardinality(Initializing) <= 1
          /\ plugin.inits <= 1
          /\ plugin.isInitialized => plugin.inits = 1
          /\ \A t \in DOMAIN plugin.threads :
                 (/\ plugin.threads[t].command \in EnsuringCommands
                  /\ plugin.threads[t].pc = "request")
                 => plugin.isInitialized)
    /\ [][plugin.isInitialized => plugin'.isInitialized]_vars

\* the init of load() failed and two commands found isInitialized false: one
\* runs the engine's init inside the lock while the other waits to enter
C38_Witness ==
    /\ plugin.threads[1].pc = "done"
    /\ ~plugin.isInitialized
    /\ \E t, u \in DOMAIN plugin.threads :
           /\ plugin.threads[t].command = "extractInfo"
           /\ plugin.threads[t].pc = "init"
           /\ plugin.initLock = t
           /\ plugin.threads[u].command = "download"
           /\ plugin.threads[u].pc = "lock"

\* C39: in the Android plugin every command invocation (extractInfo,
\* download, updateYtdlp, getVersion) is settled exactly once: it is never
\* both resolved and rejected nor settled twice, and when its coroutine has
\* ended it has been resolved or rejected, also when initialization failed
\* and when the plugin was destroyed while the command was running.
C39_SettledExactlyOnce ==
    \A t \in DOMAIN plugin.threads :
        plugin.threads[t].command \in Commands =>
            /\ plugin.threads[t].resolved + plugin.threads[t].rejected <= 1
            /\ plugin.threads[t].pc = "done" =>
                   plugin.threads[t].resolved + plugin.threads[t].rejected = 1

====
